---- MODULE Spec2Model ----
(***************************************************************************)
(* Model of src/components/hero.jsx: the compressImage promise chain       *)
(* (FileReader load -> Image load -> canvas draw -> toBlob -> resolve) and *)
(* the Clerk middleware handler that guards the protected routes; and of   *)
(* AddTransactionForm's submit handler and success effect                  *)
(* (src/app/(main)/transaction/_components/transaction-form.jsx).          *)
(***************************************************************************)
EXTENDS Integers, Sequences, FiniteSets, TLC

\* ------------------------------------------------------------------------
\* Bounds of the model
\* ------------------------------------------------------------------------
NCalls == 2          \* compressImage calls in flight in Spec
MaxDim == 5          \* image sides 0..MaxDim (plus SpecialDims) in SpecScale
MaxSizeBound == 5    \* maxSize 0..MaxSizeBound (plus SpecialSizes) in SpecScale
MaxPathLen == 4      \* tokens of a request path in SpecMw
MaxAmountLen == 2    \* characters of the form's amount field in SpecForm

\* ------------------------------------------------------------------------
\* JavaScript Number arithmetic (IEEE-754 binary64, round to nearest, ties
\* to even) on the operands compressImage uses: non-negative integers
\* divided, then an integer multiplied by the quotient.  A finite non-zero
\* double is [cls |-> "finite", m |-> 53 bits, most significant first and
\* m[1] = 1, e |-> exponent]: its value is 1.m[2]...m[53] * 2^e.
\* ------------------------------------------------------------------------
MantBits == 53

Zero == [cls |-> "zero"]
NaN == [cls |-> "nan"]
Infinity == [cls |-> "inf"]

RECURSIVE Pow2(_)
Pow2(n) == IF n = 0 THEN 1 ELSE 2 * Pow2(n - 1)

\* floor(log2(a / b)) for a, b > 0
RECURSIVE Log2Ratio(_, _)
Log2Ratio(a, b) ==
    IF a >= 2 * b THEN 1 + Log2Ratio(a, 2 * b)
    ELSE IF a < b THEN Log2Ratio(2 * a, b) - 1
    ELSE 0

\* the n-bit binary numeral of q, most significant bit first
Bits(q, n) == [j \in 1..n |-> (q \div Pow2(n - j)) % 2]

\* the number of bits of q > 0
RECURSIVE BitLength(_)
BitLength(q) == IF q = 0 THEN 0 ELSE 1 + BitLength(q \div 2)

\* the value of bits[from..to]
RECURSIVE BitsValue(_, _, _)
BitsValue(bits, from, to) ==
    IF from > to THEN 0
    ELSE 2 * BitsValue(bits, from, to - 1) + bits[to]

\* long division, LimbBits quotient bits at a time: the next limbs of r / d
\* for a remainder r < d, then the last remainder
LimbBits == 13
Limbs == 4

RECURSIVE DivLimbs(_, _, _, _)
DivLimbs(r, d, n, acc) ==
    IF n = 0 THEN [bits |-> acc, rem |-> r]
    ELSE LET t == r * Pow2(LimbBits)
         IN DivLimbs(t % d, d, n - 1, acc \o Bits(t \div d, LimbBits))

\* bits + 1; carry is 1 when the increment overflows the width
Increment(bits) ==
    LET zeros == {i \in 1..Len(bits) : bits[i] = 0}
    IN IF zeros = {} THEN [bits |-> [i \in 1..Len(bits) |-> 0], carry |-> 1]
       ELSE LET j == CHOOSE i \in zeros : \A k \in zeros : k <= i
            IN [bits |-> [i \in 1..Len(bits) |->
                            IF i < j THEN bits[i] ELSE IF i = j THEN 1 ELSE 0],
                carry |-> 0]

\* round a mantissa kept to MantBits bits: guard is the first dropped bit,
\* sticky tells whether anything non-zero follows it
RoundNearestEven(bits, e, guard, sticky) ==
    IF guard = 1 /\ (sticky \/ bits[MantBits] = 1)
    THEN LET inc == Increment(bits)
         IN IF inc.carry = 1
            THEN [cls |-> "finite", m |-> <<1>> \o SubSeq(inc.bits, 1, MantBits - 1), e |-> e + 1]
            ELSE [cls |-> "finite", m |-> inc.bits, e |-> e]
    ELSE [cls |-> "finite", m |-> bits, e |-> e]

\* a / b in JavaScript for integers a, b >= 0
FDiv(a, b) ==
    IF b = 0 THEN (IF a = 0 THEN NaN ELSE Infinity)
    ELSE IF a = 0 THEN Zero
    ELSE LET e == Log2Ratio(a, b)
             num == IF e < 0 THEN a * Pow2(0 - e) ELSE a
             den == IF e > 0 THEN b * Pow2(e) ELSE b
             q == DivLimbs(num - den, den, Limbs, <<1>>)
         IN RoundNearestEven(q.bits, e, IF 2 * q.rem >= den THEN 1 ELSE 0,
                             2 * q.rem # den /\ q.rem # 0)

\* the bits of w * mantissa, a limb at a time from the least significant
RECURSIVE MulLimbs(_, _, _, _, _)
MulLimbs(w, bits, n, carry, acc) ==
    IF n = 0
    THEN LET top == w * bits[1] + carry
         IN Bits(top, BitLength(top)) \o acc
    ELSE LET t == w * BitsValue(bits, 2 + (n - 1) * LimbBits, 1 + n * LimbBits) + carry
         IN MulLimbs(w, bits, n - 1, t \div Pow2(LimbBits),
                     Bits(t % Pow2(LimbBits), LimbBits) \o acc)

\* w * x in JavaScript for an integer w >= 0 and a double x >= 0
FMul(w, x) ==
    IF x.cls = "nan" THEN NaN
    ELSE IF x.cls = "inf" THEN (IF w = 0 THEN NaN ELSE Infinity)
    ELSE IF x.cls = "zero" \/ w = 0 THEN Zero
    ELSE LET p == MulLimbs(w, x.m, Limbs, 0, <<>>)
             extra == Len(p) - MantBits
         IN RoundNearestEven(SubSeq(p, 1, MantBits), x.e + extra,
                             IF extra > 0 THEN p[MantBits + 1] ELSE 0,
                             \E k \in (MantBits + 2)..Len(p) : p[k] = 1)

\* a mutation of ToUnsignedLong: the side rounded up instead of truncated
ToUnsignedLongCeil(x) ==
    IF x.cls # "finite" THEN 0
    ELSE IF x.e < 0 THEN 1
    ELSE BitsValue(x.m, 1, x.e + 1)
         + (IF \E k \in (x.e + 2)..MantBits : x.m[k] = 1 THEN 1 ELSE 0)

\* the WebIDL conversion of a double to the canvas's unsigned long width or
\* height: NaN and the infinities become 0, a finite value is truncated
ToUnsignedLong(x) ==
    IF x.cls # "finite" THEN 0
    ELSE IF x.e < 0 THEN 0
    ELSE BitsValue(x.m, 1, x.e + 1)

\* ------------------------------------------------------------------------
\* compressImage(file, maxSize = 512)
\* ------------------------------------------------------------------------
VARIABLES calls, mw, form

vars == <<calls, mw, form>>

CallIds == 1..NCalls

DefaultMaxSize == 512
\* the null value, and the blob that toBlob makes of a canvas
Null == [type |-> "null"]
NoFile == [name |-> "", type |-> "", kind |-> "none", width |-> 0, height |-> 0]
NoCanvas == [width |-> -1, height |-> -1]
NoPromise == [state |-> "none", value |-> Null]

\* an input File: its name and MIME type, what the browser can do with its
\* bytes (kind: "image" decodes, "corrupt" does not decode, "unreadable"
\* fails to be read) and, for an image, the decoded raster's sides
InputFile(name, type, kind, w, h) ==
    [name |-> name, type |-> type, kind |-> kind, width |-> w, height |-> h]

IdleCall ==
    [pc |-> "idle", file |-> NoFile, maxSize |-> 0, canvas |-> NoCanvas,
     promise |-> NoPromise, steps |-> <<>>, nFiles |-> 0]

\* maxSize = 512: the default applies when the argument is left out
MaxSizeArg(args) == IF Len(args) < 2 THEN DefaultMaxSize ELSE args[2]

\* a mutation of Closure: one module-level environment shared by all calls
SharedEnv(cs, i) == cs[1]

\* the variables a call's callbacks close over (file, maxSize, resolve, img,
\* canvas): those of their own invocation
Closure(cs, i) == cs[i]

\* Math.max(img.width, img.height)
LargerSide(w, h) == IF w >= h THEN w ELSE h

\* scale = maxSize / Math.max(img.width, img.height)
Scale(w, h, maxSize) == FDiv(maxSize, LargerSide(w, h))

\* canvas.width = img.width * scale; canvas.height = img.height * scale
Surface(w, h, maxSize) ==
    LET scale == Scale(w, h, maxSize)
    IN [width |-> ToUnsignedLong(FMul(w, scale)),
        height |-> ToUnsignedLong(FMul(h, scale))]

\* what canvas.toBlob hands to its callback: null for a canvas without
\* pixels, else the JPEG encoding of the bitmap
ToBlob(canvas) ==
    IF canvas.width = 0 \/ canvas.height = 0 THEN Null
    ELSE [type |-> "image/jpeg", width |-> canvas.width, height |-> canvas.height]

\* a mutation of CompressedFile: the input's MIME type is kept
CompressedFileKeepType(blob, file) ==
    [name |-> file.name, type |-> file.type,
     content |-> IF blob = Null THEN [type |-> "text", text |-> "null"] ELSE blob]

\* new File([blob], file.name, {type: "image/jpeg", ...}); a null part is
\* converted to the string "null"
CompressedFile(blob, file) ==
    [name |-> file.name, type |-> "image/jpeg",
     content |-> IF blob = Null THEN [type |-> "text", text |-> "null"] ELSE blob]

\* resolve(value) of the promise: a settled promise ignores it
Resolve(p, value) ==
    IF p.state = "pending" THEN [state |-> "resolved", value |-> value] ELSE p

\* the FileReader has a read in progress
ReaderReady(c) == c.pc = "reading"

\* a mutation of ImgReady: the image loads before the read has completed
ImgReadyEarly(c) == c.pc \in {"reading", "decoding"}

\* img.src has been set and the image has not fired load or error yet
ImgReady(c) == c.pc = "decoding"

\* a mutation of BlobReady: the toBlob callback runs again
BlobReadyAgain(c) == c.pc \in {"encoding", "done"}

\* toBlob has been called and its callback has not run yet
BlobReady(c) == c.pc = "encoding"

\* compressImage(file, maxSize): the promise is created, the reader starts
Invoke(i, args) ==
    /\ calls[i].pc = "idle"
    /\ calls' = [calls EXCEPT ![i] =
                    [IdleCall EXCEPT !.pc = "reading", !.file = args[1],
                                     !.maxSize = MaxSizeArg(args),
                                     !.promise = [state |-> "pending", value |-> Null]]]
    /\ UNCHANGED <<mw, form>>

\* reader.onload: the image is created and given the data URL
ReaderLoad(i) ==
    /\ ReaderReady(calls[i])
    /\ calls[i].file.kind # "unreadable"
    /\ calls' = [calls EXCEPT ![i].pc = "decoding",
                              ![i].steps = Append(@, "read")]
    /\ UNCHANGED <<mw, form>>

\* the read fails: the reader fires error, for which there is no handler
ReaderError(i) ==
    /\ ReaderReady(calls[i])
    /\ calls[i].file.kind = "unreadable"
    /\ calls' = [calls EXCEPT ![i].pc = "readFailed"]
    /\ UNCHANGED <<mw, form>>

\* img.onload: scale, canvas, drawImage, toBlob
ImgLoad(i) ==
    /\ ImgReady(calls[i])
    /\ calls[i].file.kind = "image"
    /\ LET env == Closure(calls, i)
       IN calls' = [calls EXCEPT
                       ![i].canvas = Surface(calls[i].file.width, calls[i].file.height,
                                             env.maxSize),
                       ![i].steps = @ \o <<"decode", "draw", "encode">>,
                       ![i].pc = "encoding"]
    /\ UNCHANGED <<mw, form>>

\* the bytes do not decode: the image fires error, for which there is no
\* handler
ImgError(i) ==
    /\ ImgReady(calls[i])
    /\ calls[i].file.kind # "image"
    /\ calls' = [calls EXCEPT ![i].pc = "decodeFailed"]
    /\ UNCHANGED <<mw, form>>

\* the toBlob callback: the File is built and the promise resolved with it
ToBlobCallback(i) ==
    /\ BlobReady(calls[i])
    /\ LET env == Closure(calls, i)
           compressedFile == CompressedFile(ToBlob(calls[i].canvas), env.file)
       IN calls' = [calls EXCEPT
                       ![i].promise = Resolve(@, compressedFile),
                       ![i].nFiles = @ + 1,
                       ![i].steps = @ \o <<"blob", "resolve">>,
                       ![i].pc = "done"]
    /\ UNCHANGED <<mw, form>>

\* the files and sizes of the concurrent calls of Spec
CallFiles ==
    { InputFile("receipt.png", "image/png", "image", 4, 2),
      InputFile("scan.jpg", "image/jpeg", "image", 1, 3),
      InputFile("notes.txt", "text/plain", "corrupt", 0, 0),
      InputFile("gone.png", "image/png", "unreadable", 0, 0) }

CallSizes == {0, 2, 3}

\* ------------------------------------------------------------------------
\* The Clerk middleware handler
\* ------------------------------------------------------------------------
NoUser == "null"
UserIds == {NoUser, "user_1"}

\* a request path is a sequence of tokens, read as their concatenation
PathTokens == {"/", "dashboard", "account", "transaction", "s", "api"}

RECURSIVE SeqsUpTo(_, _)
SeqsUpTo(S, n) ==
    IF n = 0 THEN {<<>>}
    ELSE LET shorter == SeqsUpTo(S, n - 1)
         IN shorter \cup {Append(p, t) : p \in shorter, t \in S}

Paths == {<<"/">> \o p : p \in SeqsUpTo(PathTokens, MaxPathLen - 1)}

\* the patterns given to createRouteMatcher, each "<prefix>(.*)"
ProtectedPatterns ==
    { <<"/", "dashboard">>, <<"/", "account">>, <<"/", "transaction">> }

\* the pattern "<prefix>(.*)" matches a path that starts with the prefix:
\* (.*) takes the rest, whatever it is
PatternMatches(prefix, path) ==
    /\ Len(path) >= Len(prefix)
    /\ SubSeq(path, 1, Len(prefix)) = prefix

\* a mutation of IsProtectedRoute: only the first pattern is matched
IsDashboardRoute(path) == PatternMatches(<<"/", "dashboard">>, path)

IsProtectedRoute(path) == \E prefix \in ProtectedPatterns : PatternMatches(prefix, path)

IdleMw == [pc |-> "idle", userId |-> NoUser, path |-> <<>>, response |-> "none"]

\* a request reaches the handler, which awaits auth()
MwRequest(userId, path) ==
    /\ mw.pc = "idle"
    /\ mw' = [mw EXCEPT !.pc = "auth", !.userId = userId, !.path = path]
    /\ UNCHANGED <<calls, form>>

\* if (!userId && isProtectedRoute(req)): the handler awaits auth() again
MwProtect ==
    /\ mw.pc = "auth"
    /\ mw.userId = NoUser /\ IsProtectedRoute(mw.path)
    /\ mw' = [mw EXCEPT !.pc = "redirecting"]
    /\ UNCHANGED <<calls, form>>

\* return redirectToSignIn()
MwRedirect ==
    /\ mw.pc = "redirecting"
    /\ mw' = [mw EXCEPT !.pc = "responded", !.response = "redirectToSignIn"]
    /\ UNCHANGED <<calls, form>>

\* return NextResponse.next()
MwPass ==
    /\ mw.pc = "auth"
    /\ ~(mw.userId = NoUser /\ IsProtectedRoute(mw.path))
    /\ mw' = [mw EXCEPT !.pc = "responded", !.response = "next"]
    /\ UNCHANGED <<calls, form>>

\* ------------------------------------------------------------------------
\* AddTransactionForm: onSubmit, useFetch and the success effect
\* ------------------------------------------------------------------------
\* parseFloat on a string of the characters "1", "2" and "x": the value of
\* the leading digits, NaN when there is none
RECURSIVE LeadingDigits(_, _)
LeadingDigits(str, acc) ==
    IF str = <<>> \/ Head(str) = "x" THEN acc
    ELSE LeadingDigits(Tail(str), 10 * acc + (IF Head(str) = "1" THEN 1 ELSE 2))

ParseFloat(str) ==
    IF str = <<>> \/ Head(str) = "x" THEN [nan |-> TRUE, value |-> 0]
    ELSE [nan |-> FALSE, value |-> LeadingDigits(str, 0)]

\* the values handleSubmit hands to onSubmit
AmountChars == {"1", "2", "x"}
Amounts == SeqsUpTo(AmountChars, MaxAmountLen)
AccountIds == {"acc_1", "acc_2"}
FormValues == [amount : Amounts, accountId : AccountIds]

\* formData = {...data, amount: parseFloat(data.amount)}
FormData(data) == [data EXCEPT !.amount = ParseFloat(data.amount)]

\* searchParams.get("edit"): the id, or null without the parameter
EditIds == {"null", "txn_1"}

\* what an action resolves with, and the hook's data before any result
NoResult == [kind |-> "undefined"]
Results ==
    {[success |-> TRUE, data |-> [accountId |-> a]] : a \in AccountIds}
        \cup {[success |-> FALSE, data |-> [accountId |-> "none"]]}

NoCall == [action |-> "none", args |-> <<>>]
NoEffect == [ran |-> FALSE]

UnmountedForm ==
    [pc |-> "unmounted", editMode |-> FALSE, editId |-> "null",
     data |-> NoResult, loading |-> FALSE, fetch |-> "idle",
     values |-> [amount |-> <<>>, accountId |-> "none"],
     call |-> NoCall, lastDeps |-> <<>>, effect |-> NoEffect]

\* useFetch(editMode ? updateTransaction : createTransaction)
FetchCallback(editMode) ==
    IF editMode THEN "updateTransaction" ELSE "createTransaction"

\* a mutation of SubmitArgs: the id is passed in both modes
SubmitArgsAlwaysId(editMode, editId, formData) == <<editId, formData>>

\* if (editMode) transactionFn(editId, formData) else transactionFn(formData)
SubmitArgs(editMode, editId, formData) ==
    IF editMode THEN <<editId, formData>> ELSE <<formData>>

\* the hook's fn(...args): it calls the callback it was given with the same
\* arguments
Fn(cb, args) == [action |-> cb, args |-> args]

\* transactionResult?.success
OptSuccess(result) == IF result = NoResult THEN FALSE ELSE result.success

\* a mutation of EffectGuard: transactionLoading is not looked at
EffectGuardIgnoresLoading(result, loading) == OptSuccess(result)

\* if (transactionResult?.success && !transactionLoading)
EffectGuard(result, loading) == OptSuccess(result) /\ ~loading

\* the effect's dependencies [transactionResult, transactionLoading, editMode]
Deps(f) == <<f.data, f.loading, f.editMode>>

\* the effect is due after the commit: on mount, and when a dependency has
\* changed
EffectDue(f) == f.pc = "mounted" /\ Deps(f) # f.lastDeps

\* the form is rendered with its props
Mount(editMode, editId) ==
    /\ form.pc = "unmounted"
    /\ form' = [form EXCEPT !.pc = "mounted", !.editMode = editMode, !.editId = editId]
    /\ UNCHANGED <<calls, mw>>

\* handleSubmit(onSubmit): the submit button is disabled while loading; the
\* hook sets loading and awaits the action
Submit(data) ==
    /\ form.pc = "mounted" /\ ~EffectDue(form)
    /\ ~form.loading
    /\ form.fetch = "idle"
    /\ form' = [form EXCEPT
                  !.values = data,
                  !.call = Fn(FetchCallback(form.editMode),
                              SubmitArgs(form.editMode, form.editId, FormData(data))),
                  !.loading = TRUE,
                  !.fetch = "awaiting"]
    /\ UNCHANGED <<calls, mw>>

\* the action resolves: the hook stores the response
FetchReturn(result) ==
    /\ ~EffectDue(form)
    /\ form.fetch = "awaiting"
    /\ form' = [form EXCEPT !.data = result, !.fetch = "settling"]
    /\ UNCHANGED <<calls, mw>>

\* the action throws: the hook keeps the data it had
FetchThrow ==
    /\ ~EffectDue(form)
    /\ form.fetch = "awaiting"
    /\ form' = [form EXCEPT !.fetch = "settling"]
    /\ UNCHANGED <<calls, mw>>

\* the hook's finally: loading is cleared
FetchFinally ==
    /\ ~EffectDue(form)
    /\ form.fetch = "settling"
    /\ form' = [form EXCEPT !.loading = FALSE, !.fetch = "idle"]
    /\ UNCHANGED <<calls, mw>>

\* the response and the cleared loading flag committed in one render
FetchSettle(result) ==
    /\ ~EffectDue(form)
    /\ form.fetch = "awaiting"
    /\ form' = [form EXCEPT !.data = result, !.loading = FALSE, !.fetch = "idle"]
    /\ UNCHANGED <<calls, mw>>

\* the effect runs and its condition holds: toast, reset, router.push
EffectSuccess ==
    /\ EffectDue(form)
    /\ EffectGuard(form.data, form.loading)
    /\ form' = [form EXCEPT
                  !.lastDeps = Deps(form),
                  !.values = UnmountedForm.values,
                  !.effect = [ran |-> TRUE,
                              result |-> form.data,
                              loading |-> form.loading,
                              toast |-> IF form.editMode
                                        THEN "Transaction updated successfully"
                                        ELSE "Transaction created successfully",
                              push |-> <<"/account/", form.data.data.accountId>>]]
    /\ UNCHANGED <<calls, mw>>

\* the effect runs and its condition fails: nothing happens
EffectSkip ==
    /\ EffectDue(form)
    /\ ~EffectGuard(form.data, form.loading)
    /\ form' = [form EXCEPT !.lastDeps = Deps(form)]
    /\ UNCHANGED <<calls, mw>>

\* ------------------------------------------------------------------------
\* Specifications
\* ------------------------------------------------------------------------
Init ==
    /\ calls = [i \in CallIds |-> IdleCall]
    /\ mw = IdleMw
    /\ form = UnmountedForm

\* concurrent compressImage calls
Next ==
    \E i \in CallIds :
        \/ \E file \in CallFiles, m \in CallSizes : Invoke(i, <<file, m>>)
        \/ ReaderLoad(i)
        \/ ReaderError(i)
        \/ ImgLoad(i)
        \/ ImgError(i)
        \/ ToBlobCallback(i)

Spec == Init /\ [][Next]_vars

\* one compressImage call over a range of image sides and sizes
SpecialDims == {11, 22, 49, 100, 1000, 1002, 2000}
SpecialSizes == {15, 512}
Dims == 0..MaxDim \cup SpecialDims
Sizes == 0..MaxSizeBound \cup SpecialSizes

ScaleFiles == {InputFile("photo.png", "image/png", "image", w, h) : w \in Dims, h \in Dims}

NextScale ==
    \/ \E file \in ScaleFiles, m \in Sizes : Invoke(1, <<file, m>>)
    \/ \E file \in ScaleFiles : Invoke(1, <<file>>)
    \/ ReaderLoad(1)
    \/ ImgLoad(1)
    \/ ToBlobCallback(1)

SpecScale == Init /\ [][NextScale]_vars

\* the middleware handler on one request
NextMw ==
    \/ \E userId \in UserIds, path \in Paths : MwRequest(userId, path)
    \/ MwProtect
    \/ MwRedirect
    \/ MwPass

SpecMw == Init /\ [][NextMw]_vars

\* the form over submits and results
NextForm ==
    \/ \E editMode \in BOOLEAN, editId \in EditIds : Mount(editMode, editId)
    \/ \E data \in FormValues : Submit(data)
    \/ \E result \in Results : FetchReturn(result)
    \/ FetchThrow
    \/ FetchFinally
    \/ \E result \in Results : FetchSettle(result)
    \/ EffectSuccess
    \/ EffectSkip

SpecForm == Init /\ [][NextForm]_vars

\* ------------------------------------------------------------------------
\* Properties
\* ------------------------------------------------------------------------
Max(a, b) == IF a >= b THEN a ELSE b
Abs(a) == IF a >= 0 THEN a ELSE 0 - a
IsPrefix(p, q) == Len(p) <= Len(q) /\ SubSeq(q, 1, Len(p)) = p

Resolved(c) == c.promise.state = "resolved"
Output(c) == c.promise.value

\* C1: a call whose file cannot be read or decoded ends with its promise
\* rejected (it neither stays pending nor resolves).
C1_UndecodableRejects ==
    \A i \in CallIds :
        calls[i].pc \in {"readFailed", "decodeFailed"}
            => calls[i].promise.state = "rejected"

C3_LargerSideIsMaxSize ==
    \A i \in CallIds :
        LET c == calls[i]
        IN (/\ Resolved(c)
            /\ c.file.width > 0 /\ c.file.height > 0
            /\ c.maxSize > 0
            /\ Max(c.file.width, c.file.height) > c.maxSize)
           => /\ Output(c).content.type = "image/jpeg"
              /\ Abs(Max(Output(c).content.width, Output(c).content.height) - c.maxSize) <= 1
              /\ (c.file.width = 2000 /\ c.file.height = 1000 /\ c.maxSize = 512)
                    => (Output(c).content.width = 512 /\ Output(c).content.height = 256)

\* C4: an image whose larger side is at most maxSize keeps its sides in the
\* output, which is still of type image/jpeg.
C4_SmallImagePassesThrough ==
    \A i \in CallIds :
        LET c == calls[i]
        IN (/\ Resolved(c)
            /\ c.file.width > 0 /\ c.file.height > 0
            /\ Max(c.file.width, c.file.height) <= c.maxSize)
           => /\ Output(c).type = "image/jpeg"
              /\ Output(c).content.type = "image/jpeg"
              /\ Output(c).content.width = c.file.width
              /\ Output(c).content.height = c.file.height

\* C5: a call whose surface is degenerate (maxSize 0, or an image with a zero
\* side) and whose encode callback has run has a rejected promise.
C5_DegenerateSurfaceRejects ==
    \A i \in CallIds :
        LET c == calls[i]
        IN (/\ c.pc = "done"
            /\ (c.maxSize = 0 \/ c.file.width = 0 \/ c.file.height = 0))
           => c.promise.state = "rejected"

\* C6: every output file has the input file's name and the type image/jpeg.
C6_NameKeptTypeJpeg ==
    \A i \in CallIds :
        Resolved(calls[i])
            => /\ Output(calls[i]).name = calls[i].file.name
               /\ Output(calls[i]).type = "image/jpeg"

C6_Witness ==
    \E i \in CallIds :
        /\ Resolved(calls[i])
        /\ calls[i].file.type # "image/jpeg"
        /\ Output(calls[i]).name = "receipt.png"

\* C7: with calls interleaved, each resolved call holds the output computed
\* from its own file and its own maxSize, and a step of one call changes no
\* other call.
OwnOutput(c) ==
    CompressedFile(ToBlob(Surface(c.file.width, c.file.height, c.maxSize)), c.file)

C7_CallsIndependent ==
    /\ [](\A i \in CallIds : Resolved(calls[i]) => Output(calls[i]) = OwnOutput(calls[i]))
    /\ [][\A i, j \in CallIds :
            (i # j /\ calls'[i] # calls[i]) => calls'[j] = calls[j]]_vars

C7_Witness ==
    \E i, j \in CallIds :
        /\ i # j
        /\ Resolved(calls[i]) /\ Resolved(calls[j])
        /\ calls[i].file # calls[j].file
        /\ calls[i].maxSize # calls[j].maxSize
        /\ Output(calls[i]) # Output(calls[j])
        /\ Output(calls[i]).content.type = "image/jpeg"
        /\ Output(calls[j]).content.type = "image/jpeg"

\* C8 as stated: each side of the surface is w * maxSize / max(w, h) rounded
\* to the nearest integer.
RoundedQuotient(a, b) == (2 * a + b) \div (2 * b)

HasSurface(c) == c.pc \in {"encoding", "done"}

C8_SidesRounded ==
    \A i \in CallIds :
        LET c == calls[i]
            larger == Max(c.file.width, c.file.height)
        IN (HasSurface(c) /\ c.maxSize > 0 /\ larger > 0)
           => /\ c.canvas.width = RoundedQuotient(c.file.width * c.maxSize, larger)
              /\ c.canvas.height = RoundedQuotient(c.file.height * c.maxSize, larger)

\* C8 as amended: each side of the surface is the double w * scale truncated:
\* floor(w * maxSize / max(w, h)), or one less than that when the quotient is
\* an integer and the double product falls just below it; 2000x1002 with
\* maxSize 512 gives a height of 256.
TruncatedSide(side, w, m, larger) ==
    LET k == (w * m) \div larger
    IN side = k \/ (side = k - 1 /\ (w * m) % larger = 0 /\ k > 0)

C8_SidesTruncated ==
    \A i \in CallIds :
        LET c == calls[i]
            larger == Max(c.file.width, c.file.height)
        IN (HasSurface(c) /\ c.maxSize > 0)
           => IF larger = 0 THEN c.canvas.width = 0 /\ c.canvas.height = 0
              ELSE /\ TruncatedSide(c.canvas.width, c.file.width, c.maxSize, larger)
                   /\ TruncatedSide(c.canvas.height, c.file.height, c.maxSize, larger)
                   /\ (c.file.width = 2000 /\ c.file.height = 1002 /\ c.maxSize = 512)
                         => (c.canvas.width = 512 /\ c.canvas.height = 256)

C8_Witness ==
    \E i \in CallIds :
        /\ HasSurface(calls[i])
        /\ calls[i].file.width = 2000 /\ calls[i].file.height = 1002
        /\ calls[i].maxSize = 512
        /\ calls[i].canvas.height = 256

\* C9: the steps of a call happen in the order read, decode, draw, encode,
\* encode callback, resolve, each at most once, and a resolved call has run
\* them all.
Chain == <<"read", "decode", "draw", "encode", "blob", "resolve">>

C9_StepsInOrder ==
    \A i \in CallIds :
        /\ IsPrefix(calls[i].steps, Chain)
        /\ Resolved(calls[i]) => calls[i].steps = Chain
        /\ HasSurface(calls[i]) => IsPrefix(<<"read", "decode", "draw", "encode">>, calls[i].steps)

C9_Witness ==
    \E i, j \in CallIds :
        /\ calls[i].steps = Chain /\ Resolved(calls[i])
        /\ calls[j].steps = <<"read">>

\* C10 as stated: the response is the sign-in redirect when there is no user
\* and the path is a protected route or below one, and next() otherwise.
AtOrBelowRoute(path) ==
    /\ Len(path) >= 2
    /\ path[1] = "/"
    /\ path[2] \in {"dashboard", "account", "transaction"}
    /\ (Len(path) = 2 \/ path[3] = "/")

C10_RedirectAtOrBelowRoute ==
    mw.pc = "responded"
        => mw.response = (IF mw.userId = NoUser /\ AtOrBelowRoute(mw.path)
                          THEN "redirectToSignIn" ELSE "next")

\* C10 as amended: the response is the sign-in redirect when there is no user
\* and the path starts with /dashboard, /account or /transaction (whatever
\* follows, so /accounts too), and next() otherwise.
StartsWithRoute(path) ==
    /\ Len(path) >= 2
    /\ path[1] = "/"
    /\ path[2] \in {"dashboard", "account", "transaction"}

C10_RedirectOnRoutePrefix ==
    mw.pc = "responded"
        => mw.response = (IF mw.userId = NoUser /\ StartsWithRoute(mw.path)
                          THEN "redirectToSignIn" ELSE "next")

C10_Witness ==
    /\ mw.pc = "responded"
    /\ mw.userId = NoUser
    /\ mw.path = <<"/", "account", "s">>
    /\ mw.response = "redirectToSignIn"

\* C11: a submit calls updateTransaction with (editId, formData) in edit mode
\* and createTransaction with (formData) alone otherwise; and the success
\* effect has only ever run with a result whose success is true and with
\* loading false, navigating to the account of that result.
C11_SubmitAndSuccessEffect ==
    /\ form.call # NoCall
          => IF form.editMode
             THEN /\ form.call.action = "updateTransaction"
                  /\ Len(form.call.args) = 2
                  /\ form.call.args[1] = form.editId
                  /\ form.call.args[2].accountId \in AccountIds
                  /\ form.fetch = "awaiting"
                        => form.call.args[2] = FormData(form.values)
             ELSE /\ form.call.action = "createTransaction"
                  /\ Len(form.call.args) = 1
                  /\ form.call.args[1].accountId \in AccountIds
                  /\ form.fetch = "awaiting"
                        => form.call.args[1] = FormData(form.values)
    /\ form.effect.ran
          => /\ form.effect.result # NoResult
             /\ form.effect.result.success = TRUE
             /\ form.effect.loading = FALSE
             /\ form.effect.push = <<"/account/", form.effect.result.data.accountId>>

C11_Witness ==
    /\ form.editMode
    /\ form.call.action = "updateTransaction"
    /\ form.call.args[1] = "txn_1"
    /\ form.effect.ran
    /\ form.effect.push = <<"/account/", "acc_2">>
    /\ form.fetch = "settling"
    /\ form.loading
====
